---- MODULE Spec2Model ----
(***************************************************************************)
(* The background file-transfer manager of the dillinger server            *)
(* (2.server/src/network/network_manager.rs, file_transfer.rs).            *)
(*                                                                         *)
(* The registry is the process-wide map file_transfers behind a tokio      *)
(* Mutex.  Every critical section of the code is a handful of in-memory    *)
(* assignments with no await inside, so each one is one atomic step in     *)
(* Spec and SpecOverlap.                                                   *)
(* A worker (start_file_transfer) is cut at its awaits on shared state:    *)
(* the registry, the destination file, the clock.  start_file_transfers    *)
(* awaits each worker inline, so a worker runs inside the task that called *)
(* start_file_transfers; a panic (an unwrap on Err/None) kills that task.  *)
(*                                                                         *)
(* A network answer is local to the worker until it touches the registry   *)
(* or the file, so it is drawn in the step that uses it: Probe is the      *)
(* first request plus its critical section, OpenAndSend the open plus the  *)
(* transfer request, Chunk one pass of the while loop, Complete the end of *)
(* the stream plus the final critical section.  Stat and SetTransferred    *)
(* stay apart: other tasks can run between the metadata read and the       *)
(* write of transferred.                                                  *)
(*                                                                         *)
(* SpecLock, further down, cuts the worker at every await and keeps the    *)
(* Mutex as state, for the statements about the locking discipline;       *)
(* FairSpecLock adds the fairness of the Mutex.  SpecStream runs one       *)
(* transfer over a longer clock, SpecHost is the server's background task. *)
(*                                                                         *)
(* Inputs: one url whose object is RemoteSize bytes long, one destination  *)
(* path (two transfers registered in one run share it), two uuids, two     *)
(* calls of start_file_transfers.  A write error writes nothing.           *)
(***************************************************************************)
EXTENDS Integers, FiniteSets, Sequences, TLC

\* ---------------------------------------------------------------- bounds
MaxTime == 2         \* the clock stops advancing here
MaxInitFile == 1     \* longest destination file present at start
MaxStreamTime == 3   \* where the clock stops in SpecStream

\* GLOBAL_CONFIG.chunking_interval (milliseconds between progress commits)
ChunkingInterval == 1

Tasks == {1, 2}                  \* the calls of start_file_transfers, in the order made
Urls == {"u1"}
Paths == {"p1"}
Ids == {"a", "b"}                \* the uuids Uuid::new_v4 hands out

\* The remote object's length in bytes behind each url.
RemoteSize(url) == IF url = "u1" THEN 2 ELSE 1

Absent == -1                     \* length of a file that does not exist
NoRange == -1                    \* the request carries no Range header

VARIABLES
    file_transfers,  \* the registry: transfer_id -> FileTransfer
    used,            \* the uuids handed out so far
    files,           \* the filesystem: path -> length, Absent when missing
    now,             \* the clock, in milliseconds
    tasks,           \* per task: position and locals of start_file_transfers / start_file_transfer
    ret,             \* what the operation of the latest step returned to its
                     \* caller (NoRet for a step that returns nothing)
    lock             \* the holder of the registry's Mutex: a task, or Free

vars == <<file_transfers, used, files, now, tasks, ret, lock>>

Free == 0                        \* Mutex::new: nobody holds the guard

NoRet == [kind |-> "none"]

\* ------------------------------------------------------------ FileTransfer
\* FileTransferStatus::new / the status FileTransfer::new builds
NewFileTransferStatus == [state |-> "NotStarted", reason |-> "Not Started"]

\* Uuid::new_v4(): a uuid never handed out before
NewV4 == CHOOSE id \in Ids \ used : TRUE

\* FileTransfer::new(), with the fresh uuid passed in
NewFileTransfer(id) ==
    [transfer_id |-> id, remote_url |-> "", local_file |-> "",
     size |-> 0, chunks_added |-> 0, chunks_added_since |-> 0,
     transferred |-> 0, bandwidth |-> 0,
     status |-> NewFileTransferStatus]

Present(id) == id \in DOMAIN file_transfers

\* faulty variant of MapInsert: the insert replaces the map's contents
Mut_MapInsert_Replace(m, id, ft) == [k \in {id} |-> ft]

\* faulty variant of MapInsert: the insert also evicts the finished records
Mut_MapInsert_Evict(m, id, ft) ==
    [k \in {x \in DOMAIN m : m[x].status.state \notin {"Completed", "Failed"}} \cup {id}
        |-> IF k = id THEN ft ELSE m[k]]

\* faulty variant of MapRemove: the remove empties the map
Mut_MapRemove_Clear(m, id) == [k \in {} |-> m[k]]

\* HashMap::insert / HashMap::remove on the registry
MapInsert(m, id, ft) == [k \in (DOMAIN m) \cup {id} |-> IF k = id THEN ft ELSE m[k]]
MapRemove(m, id) == [k \in (DOMAIN m) \ {id} |-> m[k]]

\* ------------------------------------------------------------ task locals
IdleTask ==
    [pc |-> "idle", cause |-> "", pending |-> {}, id |-> "", url |-> "", local_file |-> "",
     total_size |-> 0, local_file_size |-> 0, range |-> NoRange, last_pass |-> 0,
     last_chunks |-> 0, remaining |-> 0]

\* the task is back in the for loop of start_file_transfers
BackToLoop(pending) == [IdleTask EXCEPT !.pc = "loop", !.pending = pending]

\* start_file_transfers has returned to its caller
Returned == [IdleTask EXCEPT !.pc = "returned"]

\* an unwrap() hit Err/None: the task unwinds and is gone
Panicked(cause) == [IdleTask EXCEPT !.pc = "panicked", !.cause = cause]

\* ------------------------------------------------------------------- Init
Init ==
    /\ file_transfers = <<>>
    /\ used = {}
    /\ files \in [Paths -> {Absent, MaxInitFile}]
    /\ now = 1
    /\ tasks = [t \in Tasks |-> IdleTask]
    /\ ret = NoRet
    /\ lock = Free

\* ------------------------------------------------------ add_file_transfer
\* the status add_file_transfer writes over the one FileTransfer::new gave
AddedStatus == [state |-> "InProgress", reason |-> ""]

AddedTransfer(id, url, destination) ==
    [NewFileTransfer(id) EXCEPT !.remote_url = url, !.local_file = destination,
                                !.status = AddedStatus]

AddFileTransfer(url, destination) ==
    /\ used # Ids
    /\ file_transfers' = MapInsert(file_transfers, NewV4,
                                   AddedTransfer(NewV4, url, destination))
    /\ used' = used \cup {NewV4}
    /\ ret' = [kind |-> "added", id |-> NewV4]
    /\ UNCHANGED <<files, now, tasks, lock>>

\* --------------------------------------------------- remove_file_transfer
RemoveFileTransfer(id) ==
    /\ file_transfers' = IF Present(id) THEN MapRemove(file_transfers, id)
                                        ELSE file_transfers
    /\ ret' = NoRet
    /\ UNCHANGED <<used, files, now, tasks, lock>>

\* --------------------------------------------- get_file_transfers_summary
\* faulty variants of SummaryFilter: the filter drops one status only
Mut_SummaryFilter_NotFailed(ft) == ft.status.state # "Failed"
Mut_SummaryFilter_NotCompleted(ft) == ft.status.state # "Completed"

\* the filter of the snapshot taken under the lock
SummaryFilter(ft) == ft.status.state = "InProgress"

\* the bandwidth the summary puts on its clone of ft: the f64 quotient cast
\* to u128, or the cloned field when no time has passed
SummaryBandwidth(ft, t_now) ==
    LET time_elapsed == t_now - ft.chunks_added_since
    IN  IF time_elapsed > 0
        THEN (ft.chunks_added * 1000) \div (time_elapsed * 1024)
        ELSE ft.bandwidth

RECURSIVE SumBandwidth(_)
SumBandwidth(S) ==
    IF S = {} THEN 0
    ELSE LET ft == CHOOSE x \in S : TRUE
         IN  ft.bandwidth + SumBandwidth(S \ {ft})

\* faulty variant of TotalBandwidth: the total is never accumulated
Mut_TotalBandwidth_Zero(ft_vec, t_now) == 0

\* total_bandwidth adds the bandwidth of every clone whose time_elapsed > 0
TotalBandwidth(ft_vec, t_now) ==
    SumBandwidth({ft \in ft_vec : t_now - ft.chunks_added_since > 0})

FileTransferMessage(t_now) ==
    LET snapshot == {file_transfers[id] : id \in DOMAIN file_transfers}
        ft_vec == {[ft EXCEPT !.bandwidth = SummaryBandwidth(ft, t_now)] :
                      ft \in {x \in snapshot : SummaryFilter(x)}}
    IN  [kind |-> "summary", component |-> "network",
         file_transfers |-> ft_vec,
         total_bandwidth |-> TotalBandwidth(ft_vec, t_now)]

\* faulty variant of GetFileTransfersSummary: the filter is applied to the
\* registry itself instead of to a copy
Mut_GetFileTransfersSummary_InPlace ==
    /\ ret' = FileTransferMessage(now)
    /\ file_transfers' = [id \in {x \in DOMAIN file_transfers :
                                     SummaryFilter(file_transfers[x])}
                             |-> file_transfers[id]]
    /\ UNCHANGED <<used, files, now, tasks, lock>>

GetFileTransfersSummary ==
    /\ ret' = FileTransferMessage(now)
    /\ UNCHANGED <<file_transfers, used, files, now, tasks, lock>>

\* --------------------------------------------------- start_file_transfers
\* the (id, url) pairs collected under the lock
TransfersSnapshot ==
    {<<id, file_transfers[id].remote_url>> : id \in DOMAIN file_transfers}

\* lines 190-202: the t-th call of start_file_transfers begins
StartFileTransfers(t) ==
    /\ tasks[t].pc = "idle"
    /\ \A o \in Tasks : o < t => tasks[o].pc # "idle"
    /\ tasks' = [tasks EXCEPT ![t] = [IdleTask EXCEPT !.pc = "loop",
                                                      !.pending = TransfersSnapshot]]
    /\ ret' = NoRet
    /\ UNCHANGED <<file_transfers, used, files, now, lock>>

\* lines 204-209, loop exhausted: start_file_transfers returns
ReturnFromStart(t) ==
    /\ tasks[t].pc = "loop"
    /\ tasks[t].pending = {}
    /\ tasks' = [tasks EXCEPT ![t] = Returned]
    /\ ret' = [kind |-> "started", task |-> t]
    /\ UNCHANGED <<file_transfers, used, files, now, lock>>

\* ---------------------------------------------------- start_file_transfer
FailedStatus == [state |-> "Failed", reason |-> "Error getting remote file (size)"]
CompletedStatus == [state |-> "Completed", reason |-> ""]

\* what the first request may answer: an error, or a content length
\* (0 when the header is absent or unparseable)
ProbeOutcomes(url) == {<<"err", 0>>, <<"ok", RemoteSize(url)>>, <<"ok", 0>>}

\* lines 204-207 and 88-112: the loop awaits start_file_transfer for the
\* next pair; the probe, then Failed or the size under the lock
Probe(t) ==
    /\ tasks[t].pc = "loop"
    /\ \E x \in tasks[t].pending : \E o \in ProbeOutcomes(x[2]) :
         LET id == x[1]
             rest == tasks[t].pending \ {x}
         IN
         IF ~Present(id)                                 \* get_mut().unwrap()
         THEN /\ tasks' = [tasks EXCEPT ![t] = Panicked("missing_record")]
              /\ UNCHANGED file_transfers
         ELSE IF o[1] = "err"
         THEN /\ file_transfers' = [file_transfers EXCEPT ![id].status = FailedStatus]
              /\ tasks' = [tasks EXCEPT ![t] = BackToLoop(rest)]
         ELSE /\ file_transfers' = [file_transfers EXCEPT ![id].size = o[2]]
              /\ tasks' = [tasks EXCEPT ![t] =
                     [IdleTask EXCEPT !.pc = "stat", !.pending = rest,
                                      !.id = id, !.url = x[2],
                                      !.local_file = file_transfers[id].local_file]]
    /\ ret' = NoRet
    /\ UNCHANGED <<used, files, now, lock>>

\* lines 114-120: the length of the destination file, 0 when it is missing
LocalFileSize(path) == IF files[path] = Absent THEN 0 ELSE files[path]

Stat(t) ==
    /\ tasks[t].pc = "stat"
    /\ \E io \in {"ok", "err"} :
         \/ /\ io = "ok"
            /\ tasks' = [tasks EXCEPT ![t].pc = "set_transferred",
                                      ![t].local_file_size = LocalFileSize(tasks[t].local_file)]
         \/ /\ io = "err"
            /\ files[tasks[t].local_file] # Absent      \* metadata().unwrap()
            /\ tasks' = [tasks EXCEPT ![t] = Panicked("metadata")]
    /\ ret' = NoRet
    /\ UNCHANGED <<file_transfers, used, files, now, lock>>

\* faulty variant of ResumeProgress: the offset is not written
Mut_ResumeProgress_Skip(ft, local_file_size) == ft

\* lines 122-127
ResumeProgress(ft, local_file_size) == [ft EXCEPT !.transferred = local_file_size]

SetTransferred(t) ==
    /\ tasks[t].pc = "set_transferred"
    /\ LET id == tasks[t].id IN
       IF ~Present(id)                                   \* get_mut().unwrap()
       THEN /\ tasks' = [tasks EXCEPT ![t] = Panicked("missing_record")]
            /\ UNCHANGED file_transfers
       ELSE /\ file_transfers' = [file_transfers EXCEPT
                   ![id] = ResumeProgress(@, tasks[t].local_file_size)]
            /\ tasks' = [tasks EXCEPT ![t].pc = "open"]
    /\ ret' = NoRet
    /\ UNCHANGED <<used, files, now, lock>>

\* faulty variant of RangeHeader: the header is sent for every offset
Mut_RangeHeader_Always(local_file_size) == local_file_size

\* lines 141-143: the first byte asked for in the Range header
\* "bytes={local_file_size}-", set only when local_file_size > 0
RangeHeader(local_file_size) ==
    IF local_file_size > 0 THEN local_file_size ELSE NoRange

\* what the transfer request may answer: a send error, a non-success
\* status, or a success carrying a body of the given length.  The server
\* honours a Range header (the rest of the object) or ignores it (the whole
\* object).
SendOutcomes(url, range) ==
    {<<"err", 0>>, <<"non_success", 0>>, <<"success", RemoteSize(url)>>}
    \cup (IF range # NoRange /\ range < RemoteSize(url)
          THEN {<<"success", RemoteSize(url) - range>>} ELSE {})

\* faulty variant of OpenAppend: the open truncates the file
Mut_OpenAppend_Truncate(len) == 0

\* lines 130-135: create(true).append(true) makes a missing file an empty
\* one and leaves an existing file as it is
OpenAppend(len) == IF len = Absent THEN 0 ELSE len

\* lines 129-148: OpenOptions create + append, then the transfer request
OpenAndSend(t) ==
    /\ tasks[t].pc = "open"
    /\ \E io \in {"ok", "err"},
          o \in SendOutcomes(tasks[t].url, RangeHeader(tasks[t].local_file_size)) :
         \/ /\ io = "err"                                \* open().await.unwrap()
            /\ o[1] = "err"
            /\ tasks' = [tasks EXCEPT ![t] = Panicked("open")]
            /\ UNCHANGED files
         \/ /\ io = "ok"
            /\ files' = [files EXCEPT ![tasks[t].local_file] = OpenAppend(@)]
            /\ \/ /\ o[1] = "err"                        \* send().await.unwrap()
                  /\ tasks' = [tasks EXCEPT ![t] = Panicked("send")]
               \/ /\ o[1] = "non_success"                \* the if is skipped
                  /\ tasks' = [tasks EXCEPT ![t] = BackToLoop(tasks[t].pending)]
               \/ /\ o[1] = "success"
                  /\ tasks' = [tasks EXCEPT ![t].pc = "chunk", ![t].remaining = o[2],
                                            ![t].range = RangeHeader(tasks[t].local_file_size),
                                            ![t].last_pass = now, ![t].last_chunks = 0]
    /\ ret' = NoRet
    /\ UNCHANGED <<file_transfers, used, now, lock>>

\* lines 159-164: the progress commit of a sampling tick
CommitProgress(ft, last_chunks, t_now) ==
    [ft EXCEPT !.transferred = @ + last_chunks,
               !.chunks_added = last_chunks,
               !.chunks_added_since = t_now]

\* faulty variant of SampleDue: every chunk is committed
Mut_SampleDue_Always(t_now, last_pass) == TRUE

\* line 154
SampleDue(t_now, last_pass) == t_now - last_pass >= ChunkingInterval

\* lines 149-175: one pass of the while loop: a chunk is read and appended
\* to the file, and committed to the record when a sample is due
Chunk(t) ==
    /\ tasks[t].pc = "chunk"
    /\ tasks[t].remaining > 0
    /\ \E c \in 1..tasks[t].remaining, io \in {"ok", "chunk", "write"} :
         LET id == tasks[t].id
             got == tasks[t].last_chunks + c
         IN
         \/ /\ io # "ok"                                 \* chunk()/write_all unwrap
            /\ c = 1
            /\ tasks' = [tasks EXCEPT ![t] = Panicked(io)]
            /\ UNCHANGED <<files, file_transfers>>
         \/ /\ io = "ok"
            /\ files' = [files EXCEPT ![tasks[t].local_file] = @ + c]
            /\ IF ~SampleDue(now, tasks[t].last_pass)
               THEN /\ tasks' = [tasks EXCEPT ![t].remaining = @ - c,
                                              ![t].last_chunks = got]
                    /\ UNCHANGED file_transfers
               ELSE IF ~Present(id)                      \* get_mut().unwrap()
               THEN /\ tasks' = [tasks EXCEPT ![t] = Panicked("missing_record")]
                    /\ UNCHANGED file_transfers
               ELSE /\ file_transfers' = [file_transfers EXCEPT
                           ![id] = CommitProgress(@, got, now)]
                    /\ tasks' = [tasks EXCEPT ![t].remaining = @ - c,
                                              ![t].last_pass = now,
                                              ![t].last_chunks = 0]
    /\ ret' = NoRet
    /\ UNCHANGED <<used, now, lock>>

\* faulty variant of FinishTransfer: the completion also clears the url
Mut_FinishTransfer_ClearsUrl(ft, last_chunks) ==
    [ft EXCEPT !.status = CompletedStatus, !.remote_url = ""]

\* what the end of the stream writes on the record
FinishTransfer(ft, last_chunks) == [ft EXCEPT !.status = CompletedStatus]

\* lines 149, 177-187: chunk() gave None, status Completed under the lock
Complete(t) ==
    /\ tasks[t].pc = "chunk"
    /\ tasks[t].remaining = 0
    /\ LET id == tasks[t].id IN
       IF ~Present(id)                                   \* get_mut().unwrap()
       THEN /\ tasks' = [tasks EXCEPT ![t] = Panicked("missing_record")]
            /\ UNCHANGED file_transfers
       ELSE /\ file_transfers' = [file_transfers EXCEPT
                   ![id] = FinishTransfer(@, tasks[t].last_chunks)]
            /\ tasks' = [tasks EXCEPT ![t] = BackToLoop(tasks[t].pending)]
    /\ ret' = NoRet
    /\ UNCHANGED <<used, files, now, lock>>

\* ------------------------------------------------------------------ clock
Tick ==
    /\ now < MaxTime
    /\ now' = now + 1
    /\ ret' = NoRet
    /\ UNCHANGED <<file_transfers, used, files, tasks, lock>>

\* ------------------------------------------------------- specifications
\* the task is inside start_file_transfers
Inside(t) == tasks[t].pc \notin {"idle", "returned", "panicked"}

WorkerStep(t) ==
    \/ Probe(t)
    \/ Stat(t)
    \/ SetTransferred(t)
    \/ OpenAndSend(t)
    \/ Chunk(t)
    \/ Complete(t)
    \/ ReturnFromStart(t)

\* Spec: the whole interface over two transfers; start_file_transfers is
\* called again only after the previous call has ended (the server's
\* background task and the test call it from one place).
SequentialStart(t) ==
    /\ \A o \in Tasks : ~Inside(o)
    /\ StartFileTransfers(t)

Next ==
    \/ \E u \in Urls, p \in Paths : AddFileTransfer(u, p)
    \/ \E id \in Ids : RemoveFileTransfer(id)
    \/ GetFileTransfersSummary
    \/ \E t \in Tasks : SequentialStart(t)
    \/ \E t \in Tasks : WorkerStep(t)
    \/ Tick

Spec == Init /\ [][Next]_vars

\* SpecOverlap: two tasks may be inside start_file_transfers at the same
\* time, over a registry that is given a single transfer.
AddFirstTransfer(url, destination) ==
    /\ used = {}
    /\ AddFileTransfer(url, destination)

NextOverlap ==
    \/ \E u \in Urls, p \in Paths : AddFirstTransfer(u, p)
    \/ \E id \in Ids : RemoveFileTransfer(id)
    \/ GetFileTransfersSummary
    \/ \E t \in Tasks : StartFileTransfers(t)
    \/ \E t \in Tasks : WorkerStep(t)
    \/ Tick

SpecOverlap == Init /\ [][NextOverlap]_vars

\* SpecLock: the worker cut at every await, with the registry's Mutex as
\* state.  A step that takes the guard waits until the Mutex is free; the
\* body of a critical section runs in the step after, and gives the guard
\* back where the code drops it.  The operations whose whole body is one
\* critical section (add, remove, summary, the snapshot of
\* start_file_transfers) take and release the Mutex within their step.

\* faulty variant of DropsGuard: the guard of line 108 is not dropped
Mut_DropsGuard_Keep108 == {"in_failed", "in_transferred", "in_commit", "in_completed"}

\* the critical sections of start_file_transfer that end with the guard
\* dropped: return (98), drop (112), end of block (127), drop (173), end of
\* block (184)
DropsGuard == {"in_failed", "in_size", "in_transferred", "in_commit", "in_completed"}

\* the Mutex after task t has run the section at pc
Release(t, pc) == IF pc \in DropsGuard THEN Free ELSE t

\* acquire_file_transfers_map().await at lines 91, 108, 124, 157, 178: the
\* position waiting for the guard, and the section it opens
Acquires ==
    [lock_failed |-> "in_failed", lock_size |-> "in_size",
     set_transferred |-> "in_transferred", lock_commit |-> "in_commit",
     lock_completed |-> "in_completed"]

LAcquire(t) ==
    /\ tasks[t].pc \in DOMAIN Acquires
    /\ lock = Free
    /\ lock' = t
    /\ tasks' = [tasks EXCEPT ![t].pc = Acquires[tasks[t].pc]]
    /\ ret' = NoRet
    /\ UNCHANGED <<file_transfers, used, files, now>>

\* faulty variant of LMissing: the panic leaves the Mutex locked
Mut_LMissing_KeepsLock(t) ==
    /\ tasks' = [tasks EXCEPT ![t] = Panicked("missing_record")]
    /\ UNCHANGED <<lock, file_transfers>>

\* get_mut(&transfer_id).unwrap() on a missing record: the task unwinds,
\* which drops the guard
LMissing(t) ==
    /\ tasks' = [tasks EXCEPT ![t] = Panicked("missing_record")]
    /\ lock' = Free
    /\ UNCHANGED file_transfers

\* lines 204-207, 88-89, 100-106: the next pair of the loop, the probe request
LRequest(t) ==
    /\ tasks[t].pc = "loop"
    /\ \E x \in tasks[t].pending : \E o \in ProbeOutcomes(x[2]) :
         tasks' = [tasks EXCEPT ![t] =
             [IdleTask EXCEPT !.pc = IF o[1] = "err" THEN "lock_failed" ELSE "lock_size",
                              !.pending = tasks[t].pending \ {x},
                              !.id = x[1], !.url = x[2], !.total_size = o[2]]]
    /\ ret' = NoRet
    /\ UNCHANGED <<file_transfers, used, files, now, lock>>

\* lines 92-98
LProbeFailed(t) ==
    /\ tasks[t].pc = "in_failed"
    /\ IF ~Present(tasks[t].id)
       THEN LMissing(t)
       ELSE /\ file_transfers' = [file_transfers EXCEPT ![tasks[t].id].status = FailedStatus]
            /\ tasks' = [tasks EXCEPT ![t] = BackToLoop(tasks[t].pending)]
            /\ lock' = Release(t, "in_failed")
    /\ ret' = NoRet
    /\ UNCHANGED <<used, files, now>>

\* lines 109-112
LSetSize(t) ==
    /\ tasks[t].pc = "in_size"
    /\ IF ~Present(tasks[t].id)
       THEN LMissing(t)
       ELSE /\ file_transfers' = [file_transfers EXCEPT ![tasks[t].id].size = tasks[t].total_size]
            /\ tasks' = [tasks EXCEPT ![t].pc = "stat",
                                      ![t].local_file = file_transfers[tasks[t].id].local_file]
            /\ lock' = Release(t, "in_size")
    /\ ret' = NoRet
    /\ UNCHANGED <<used, files, now>>

\* lines 125-127
LSetTransferred(t) ==
    /\ tasks[t].pc = "in_transferred"
    /\ IF ~Present(tasks[t].id)
       THEN LMissing(t)
       ELSE /\ file_transfers' = [file_transfers EXCEPT
                   ![tasks[t].id] = ResumeProgress(@, tasks[t].local_file_size)]
            /\ tasks' = [tasks EXCEPT ![t].pc = "open"]
            /\ lock' = Release(t, "in_transferred")
    /\ ret' = NoRet
    /\ UNCHANGED <<used, files, now>>

\* lines 149-156: one chunk is read and appended to the file; when a sample
\* is due the worker goes for the guard
LChunk(t) ==
    /\ tasks[t].pc = "chunk"
    /\ tasks[t].remaining > 0
    /\ \E c \in 1..tasks[t].remaining, io \in {"ok", "chunk", "write"} :
         \/ /\ io # "ok"                                 \* chunk()/write_all unwrap
            /\ c = 1
            /\ tasks' = [tasks EXCEPT ![t] = Panicked(io)]
            /\ UNCHANGED files
         \/ /\ io = "ok"
            /\ files' = [files EXCEPT ![tasks[t].local_file] = @ + c]
            /\ tasks' = [tasks EXCEPT
                   ![t].remaining = @ - c,
                   ![t].last_chunks = @ + c,
                   ![t].last_pass = IF SampleDue(now, @) THEN now ELSE @,
                   ![t].pc = IF SampleDue(now, tasks[t].last_pass)
                             THEN "lock_commit" ELSE "chunk"]
    /\ ret' = NoRet
    /\ UNCHANGED <<file_transfers, used, now, lock>>

\* lines 158-173
LCommit(t) ==
    /\ tasks[t].pc = "in_commit"
    /\ IF ~Present(tasks[t].id)
       THEN LMissing(t)
       ELSE /\ file_transfers' = [file_transfers EXCEPT
                   ![tasks[t].id] = CommitProgress(@, tasks[t].last_chunks, now)]
            /\ tasks' = [tasks EXCEPT ![t].pc = "chunk", ![t].last_chunks = 0]
            /\ lock' = Release(t, "in_commit")
    /\ ret' = NoRet
    /\ UNCHANGED <<used, files, now>>

\* line 149: chunk() gave None, the loop is left
LEndOfStream(t) ==
    /\ tasks[t].pc = "chunk"
    /\ tasks[t].remaining = 0
    /\ tasks' = [tasks EXCEPT ![t].pc = "lock_completed"]
    /\ ret' = NoRet
    /\ UNCHANGED <<file_transfers, used, files, now, lock>>

\* lines 179-184
LComplete(t) ==
    /\ tasks[t].pc = "in_completed"
    /\ IF ~Present(tasks[t].id)
       THEN LMissing(t)
       ELSE /\ file_transfers' = [file_transfers EXCEPT
                   ![tasks[t].id] = FinishTransfer(@, tasks[t].last_chunks)]
            /\ tasks' = [tasks EXCEPT ![t] = BackToLoop(tasks[t].pending)]
            /\ lock' = Release(t, "in_completed")
    /\ ret' = NoRet
    /\ UNCHANGED <<used, files, now>>

LWorkerStep(t) ==
    \/ LRequest(t)
    \/ LAcquire(t)
    \/ LProbeFailed(t)
    \/ LSetSize(t)
    \/ Stat(t)
    \/ LSetTransferred(t)
    \/ OpenAndSend(t)
    \/ LChunk(t)
    \/ LCommit(t)
    \/ LEndOfStream(t)
    \/ LComplete(t)
    \/ ReturnFromStart(t)

\* file_transfers.lock().await of lines 75, 82, 35 and 196: the operation
\* runs once the Mutex is free
LAddFileTransfer(url, destination) == lock = Free /\ AddFirstTransfer(url, destination)
LRemoveFileTransfer(id) == lock = Free /\ RemoveFileTransfer(id)
LGetFileTransfersSummary == lock = Free /\ GetFileTransfersSummary
LStartFileTransfers(t) == lock = Free /\ StartFileTransfers(t)

NextLock ==
    \/ \E u \in Urls, p \in Paths : LAddFileTransfer(u, p)
    \/ \E id \in Ids : LRemoveFileTransfer(id)
    \/ LGetFileTransfersSummary
    \/ \E t \in Tasks : LStartFileTransfers(t)
    \/ \E t \in Tasks : LWorkerStep(t)
    \/ Tick

SpecLock == Init /\ [][NextLock]_vars

\* the critical sections of task t: code with no await inside
LSection(t) ==
    \/ LProbeFailed(t)
    \/ LSetSize(t)
    \/ LSetTransferred(t)
    \/ LCommit(t)
    \/ LComplete(t)

\* FairSpecLock: a task that holds the guard runs its section to the end,
\* and tokio's Mutex hands a free lock to a task that waits for it.  No
\* fairness is put on the network and file steps, nor on the callers.
FairSpecLock ==
    /\ SpecLock
    /\ \A t \in Tasks : WF_vars(LAcquire(t)) /\ WF_vars(LSection(t))

\* SpecStream: one transfer, calls of start_file_transfers that do not
\* overlap, and a clock that runs long enough for a worker to pass two
\* sampling ticks and for a summary to see a sample age.
LateTick ==
    /\ now < MaxStreamTime
    /\ now' = now + 1
    /\ ret' = NoRet
    /\ UNCHANGED <<file_transfers, used, files, tasks, lock>>

NextStream ==
    \/ \E u \in Urls, p \in Paths : AddFirstTransfer(u, p)
    \/ \E id \in Ids : RemoveFileTransfer(id)
    \/ GetFileTransfersSummary
    \/ \E t \in Tasks : SequentialStart(t)
    \/ \E t \in Tasks : WorkerStep(t)
    \/ LateTick

SpecStream == Init /\ [][NextStream]_vars

\* SpecHost: the server's background task (main.rs): it awaits
\* start_file_transfers, then publishes a summary every second.  The rest
\* of the process may register and remove transfers at any time.
HostTask == 1                    \* the task tokio::spawn starts

\* faulty variant of HostPublish: the loop runs beside start_file_transfers
Mut_HostPublish_Spawned == GetFileTransfersSummary

\* main.rs line 134
HostStart ==
    /\ tasks[HostTask].pc = "idle"
    /\ StartFileTransfers(HostTask)

\* main.rs lines 137-143: one pass of the monitoring loop, reached once
\* start_file_transfers has returned
HostPublish ==
    /\ tasks[HostTask].pc = "returned"
    /\ GetFileTransfersSummary

NextHost ==
    \/ \E u \in Urls, p \in Paths : AddFileTransfer(u, p)
    \/ \E id \in Ids : RemoveFileTransfer(id)
    \/ HostStart
    \/ WorkerStep(HostTask)
    \/ HostPublish
    \/ Tick

SpecHost == Init /\ [][NextHost]_vars

\* ================================================================ claims
Terminal(status) == status.state \in {"Completed", "Failed"}

\* the task is inside start_file_transfer, past the probe
WorkerPcs == {"stat", "set_transferred", "open", "chunk"}

\* this step is a return of start_file_transfer in task t
WorkerReturns(t) ==
    /\ tasks'[t].pc = "loop"
    /\ \/ tasks[t].pc \in WorkerPcs
       \/ tasks[t].pc = "loop" /\ tasks'[t].pending # tasks[t].pending

\* the transfer that worker was run for
ReturnedId(t) ==
    IF tasks[t].pc = "loop"
    THEN (CHOOSE x \in tasks[t].pending \ tasks'[t].pending : TRUE)[1]
    ELSE tasks[t].id

\* C1: terminal idempotence - once a record's status is Completed or Failed,
\* no step changes that status while the record stays in the registry.
C1_TerminalIdempotence ==
    [][\A id \in DOMAIN file_transfers :
          (Terminal(file_transfers[id].status) /\ id \in DOMAIN file_transfers')
          => file_transfers'[id].status = file_transfers[id].status]_vars

\* C2: completion accounting - when a worker sets its record to Completed,
\* the record's transferred equals the length of the destination file
\* (resume offset plus every chunk appended); no received byte is uncounted.
C2_CompletionAccounting ==
    [][\A t \in Tasks :
          (Complete(t) /\ tasks[t].id \in DOMAIN file_transfers')
          => file_transfers'[tasks[t].id].transferred = files'[tasks[t].local_file]]_vars

\* C3: whenever start_file_transfer returns for a record that is still in the
\* registry, the record's status is Completed or Failed, never InProgress.
C3_WorkerEndsTerminal ==
    [][\A t \in Tasks :
          (WorkerReturns(t) /\ ReturnedId(t) \in DOMAIN file_transfers')
          => Terminal(file_transfers'[ReturnedId(t)].status)]_vars

\* C4: a failed send, chunk read or file write is recorded as Failed and the
\* worker returns normally: no task ever panics on such a failure.
C4_MidStreamFailureHandled ==
    \A t \in Tasks :
        tasks[t].pc = "panicked" => tasks[t].cause \notin {"send", "chunk", "write"}

\* C5: progress monotonicity - between two successive observations of a
\* record that is InProgress at both, transferred does not decrease.
C5_ProgressMonotonic ==
    [][\A id \in DOMAIN file_transfers \cap DOMAIN file_transfers' :
          (file_transfers[id].status.state = "InProgress"
           /\ file_transfers'[id].status.state = "InProgress")
          => file_transfers'[id].transferred >= file_transfers[id].transferred]_vars

\* C6: single writer per record - no two tasks are inside start_file_transfer
\* for the same transfer id at the same time.
C6_SingleWriter ==
    \A t1, t2 \in Tasks :
        (t1 # t2 /\ tasks[t1].pc \in WorkerPcs /\ tasks[t2].pc \in WorkerPcs)
        => tasks[t1].id # tasks[t2].id

\* C7: summary filtering - every record in a returned summary is InProgress
\* in the registry the summary was taken from; NotStarted, Completed and
\* Failed records are never included.
C7_SummaryFiltering ==
    ret.kind = "summary" =>
        \A r \in ret.file_transfers :
            /\ r.status.state = "InProgress"
            /\ r.transfer_id \in DOMAIN file_transfers
            /\ file_transfers[r.transfer_id].status.state = "InProgress"

\* a summary was returned that lists a record and leaves a terminal one out
C7_Witness ==
    /\ ret.kind = "summary"
    /\ ret.file_transfers # {}
    /\ \E id \in DOMAIN file_transfers : Terminal(file_transfers[id].status)

\* C8 (as claimed): failure visibility - every record that is Failed in the
\* registry is included, with its reason, in every summary returned.
C8_FailedVisibleInSummary ==
    ret.kind = "summary" =>
        \A id \in DOMAIN file_transfers :
            file_transfers[id].status.state = "Failed"
            => \E r \in ret.file_transfers :
                  r.transfer_id = id /\ r.status = file_transfers[id].status

\* C8 (amended): a Failed record carries a non-empty reason on its registry
\* record, and no summary includes it: a summary lists InProgress records only.
C8_FailedKeptNotListed ==
    \A id \in DOMAIN file_transfers :
        file_transfers[id].status.state = "Failed"
        => /\ file_transfers[id].status.reason # ""
           /\ ret.kind = "summary"
              => \A r \in ret.file_transfers : r.transfer_id # id

\* a summary was returned while a Failed record sits in the registry
C8_Witness ==
    /\ ret.kind = "summary"
    /\ \E id \in DOMAIN file_transfers : file_transfers[id].status.state = "Failed"

\* what a registration step must leave behind, given the status it sets
RegistrationPost(url, destination, status) ==
    LET id == ret'.id IN
    /\ ret'.kind = "added"
    /\ id \notin used
    /\ id \notin DOMAIN file_transfers
    /\ DOMAIN file_transfers' = DOMAIN file_transfers \cup {id}
    /\ file_transfers'[id].transfer_id = id
    /\ file_transfers'[id].remote_url = url
    /\ file_transfers'[id].local_file = destination
    /\ file_transfers'[id].transferred = 0
    /\ file_transfers'[id].size = 0
    /\ file_transfers'[id].status.state = status
    /\ \A k \in DOMAIN file_transfers : file_transfers'[k] = file_transfers[k]

C10_ReturnsOnHandoff ==
    \A t \in Tasks : ~(tasks[t].pc = "chunk" /\ tasks[t].pending = {})

\* this step is a probe failure of task t: the worker returned at line 98
ProbeFails(t) ==
    /\ tasks[t].pc = "loop"
    /\ tasks'[t].pc = "loop"
    /\ tasks'[t].pending # tasks[t].pending

\* C11: the workers of one start_file_transfers call are independent
\* concurrent units: the call is never inside one worker while another
\* transfer of its snapshot still waits to be handed off, so the second can
\* stream before the first reaches a terminal status.
C11_WorkersIndependent ==
    \A t \in Tasks : tasks[t].pending # {} => tasks[t].pc \notin WorkerPcs

\* C12: a start_file_transfers call takes into its snapshot, and so
\* launches a worker for, only records that are not Completed or Failed.
C12_SnapshotOnlyUnstarted ==
    [][\A t \in Tasks :
          StartFileTransfers(t)
          => \A x \in tasks'[t].pending : ~Terminal(file_transfers[x[1]].status)]_vars

\* C13: a record removed under a worker is a silent abort: no task ever
\* panics on a missing record.
C13_MissingRecordSilent ==
    \A t \in Tasks :
        tasks[t].pc = "panicked" => tasks[t].cause # "missing_record"

\* C14: a probe failure sets the record Failed with a non-empty reason,
\* leaves transferred at 0 and size at 0, and touches no file.
C14_ProbeFailure ==
    [][\A t \in Tasks :
          (ProbeFails(t) /\ ReturnedId(t) \in DOMAIN file_transfers')
          => /\ file_transfers'[ReturnedId(t)].status.state = "Failed"
             /\ file_transfers'[ReturnedId(t)].status.reason # ""
             /\ file_transfers'[ReturnedId(t)].transferred = 0
             /\ file_transfers'[ReturnedId(t)].size = 0
             /\ files' = files]_vars

\* C15: a destination file that cannot be opened, or whose metadata cannot
\* be read, is recorded as Failed: no task ever panics on it.
C15_FilesystemFailureHandled ==
    \A t \in Tasks :
        tasks[t].pc = "panicked" => tasks[t].cause \notin {"open", "metadata"}

\* C16: remove_file_transfer(id) deletes the record with that id when it is
\* present and changes nothing when it is absent; it raises no error (no task
\* is disturbed), every other record is unchanged, and removing the same id
\* again from the resulting registry changes nothing.
C16_RemoveFrame ==
    [][\A id \in Ids :
          RemoveFileTransfer(id)
          => /\ DOMAIN file_transfers' = DOMAIN file_transfers \ {id}
             /\ \A k \in DOMAIN file_transfers' : file_transfers'[k] = file_transfers[k]
             /\ (IF id \in DOMAIN file_transfers'
                 THEN MapRemove(file_transfers', id)
                 ELSE file_transfers') = file_transfers'
             /\ tasks' = tasks /\ used' = used /\ files' = files]_vars

\* a record was removed and another record is still registered
C16_Witness ==
    /\ ret = NoRet
    /\ \E id \in used : ~Present(id)
    /\ DOMAIN file_transfers # {}

\* C17: records persist until removed - a step that is not
\* remove_file_transfer deletes no record; the step at which a worker ends
\* after writing Completed or Failed leaves the record registered with that
\* status; and a step in which no worker runs (add, summary, clock,
\* start_file_transfers beginning or returning) changes no record's status.
C17_RecordsPersist ==
    [][/\ \/ \E id \in Ids : RemoveFileTransfer(id)
          \/ \A id \in DOMAIN file_transfers : id \in DOMAIN file_transfers'
       /\ \A t \in Tasks :
             (WorkerReturns(t) /\ ReturnedId(t) \in DOMAIN file_transfers
                /\ (ProbeFails(t) \/ (tasks[t].pc = "chunk" /\ tasks[t].remaining = 0)))
             => /\ ReturnedId(t) \in DOMAIN file_transfers'
                /\ Terminal(file_transfers'[ReturnedId(t)].status)
       /\ (\A t \in Tasks : \/ tasks'[t] = tasks[t]
                             \/ tasks[t].pc = "idle"
                             \/ tasks'[t].pc = "returned")
          => \A id \in DOMAIN file_transfers \cap DOMAIN file_transfers' :
                file_transfers'[id].status = file_transfers[id].status]_vars

\* start_file_transfers has returned and a record it finished is still
\* registered with its terminal status, next to a second record
C17_Witness ==
    /\ \E t \in Tasks : tasks[t].pc = "returned"
    /\ \E id \in DOMAIN file_transfers : Terminal(file_transfers[id].status)
    /\ used = Ids

\* C18: get_file_transfers_summary has no side effect - the step that
\* returns a summary leaves the set of registered ids and every field of
\* every record as they were (and the files, the uuids and the workers'
\* positions), also while a worker is mid-stream.
C18_SummaryReadOnly ==
    [][ret'.kind = "summary"
          => /\ file_transfers' = file_transfers
             /\ used' = used /\ files' = files /\ tasks' = tasks]_vars

\* a summary was returned while a worker is mid-stream on a record whose
\* sample counters have been written
C18_Witness ==
    /\ ret.kind = "summary"
    /\ \E t \in Tasks : /\ tasks[t].pc = "chunk"
                         /\ Present(tasks[t].id)
                         /\ file_transfers[tasks[t].id].chunks_added > 0

\* C20: resume request - between the metadata read and the transfer request
\* the worker's offset is the destination file's length (0 when the file
\* does not exist), and the request a worker is streaming the answer of was
\* sent with a Range starting at that offset when the offset is > 0 and
\* with no Range when it is 0.
C20_ResumeRequest ==
    \A t \in Tasks :
        /\ tasks[t].pc \in {"set_transferred", "open"}
           => tasks[t].local_file_size =
                 (IF files[tasks[t].local_file] = Absent
                  THEN 0 ELSE files[tasks[t].local_file])
        /\ tasks[t].pc = "chunk"
           => /\ tasks[t].local_file_size > 0 => tasks[t].range = tasks[t].local_file_size
              /\ tasks[t].local_file_size = 0 => tasks[t].range = NoRange
              /\ tasks[t].local_file_size >= 0

\* a worker streams the answer of a request sent with a resume offset
C20_Witness ==
    \E t \in Tasks : /\ tasks[t].pc = "chunk"
                     /\ tasks[t].range > 0
                     /\ tasks[t].remaining < RemoteSize(tasks[t].url)

\* the positions of start_file_transfer whose next statement is a network
\* request, a chunk read, a metadata read, a file open or a file write
IoPcs == {"loop", "stat", "open", "chunk"}

\* C19: locking discipline - a task that is about to make a network request,
\* read a chunk, read file metadata, open or write the file does not hold
\* the registry lock; a task that is about to acquire the lock does not
\* hold it; and a task outside start_file_transfers does not hold it, so
\* the lock is held only inside the in-memory critical sections.
C19_LockingDiscipline ==
    \A t \in Tasks :
        /\ tasks[t].pc \in IoPcs => lock # t
        /\ tasks[t].pc \in DOMAIN Acquires => lock # t
        /\ tasks[t].pc \in {"idle", "returned", "panicked"} => lock # t

\* a worker holds the lock in its sampling section while the other task
\* waits for it
C19_Witness ==
    \E t \in Tasks, o \in Tasks :
        /\ lock = t
        /\ tasks[t].pc = "in_commit"
        /\ tasks[o].pc \in DOMAIN Acquires

\* C21: non-partial response policy - while a worker streams the answer to a
\* request that carried a resume offset, the bytes already in the file plus
\* the bytes still to come do not exceed the remote size, and neither do the
\* bytes counted on the record plus those still to be counted: a full body
\* sent in answer to a range request restarts the file from 0.
C21_NonPartialRestarts ==
    \A t \in Tasks :
        (tasks[t].pc = "chunk" /\ tasks[t].range # NoRange)
        => /\ files[tasks[t].local_file] + tasks[t].remaining <= RemoteSize(tasks[t].url)
           /\ Present(tasks[t].id)
              => file_transfers[tasks[t].id].transferred + tasks[t].last_chunks
                    + tasks[t].remaining <= RemoteSize(tasks[t].url)

\* C23: size bound - a record whose size is known and non-zero has
\* transferred <= size.
C23_SizeBound ==
    \A id \in DOMAIN file_transfers :
        file_transfers[id].size > 0
        => file_transfers[id].transferred <= file_transfers[id].size

\* this step is a sampling commit of task t on its record
SamplingCommit(t) ==
    /\ tasks[t].pc = "chunk"
    /\ tasks'[t].pc = "chunk"
    /\ tasks'[t] # tasks[t]
    /\ tasks[t].id \in DOMAIN file_transfers
    /\ tasks[t].id \in DOMAIN file_transfers'
    /\ file_transfers'[tasks[t].id] # file_transfers[tasks[t].id]

\* C24: sampling update - a sampling commit stores on the record the
\* bandwidth of the bytes accumulated since the previous sample over the
\* time elapsed since it, resets the record's bytes-since-last-sample
\* counter to 0 and sets its last-sample time to now.
C24_SamplingUpdate ==
    [][\A t \in Tasks :
          SamplingCommit(t)
          => LET old == file_transfers[tasks[t].id]
                 new == file_transfers'[tasks[t].id]
                 bytes == new.transferred - old.transferred
                 elapsed == now - tasks[t].last_pass
             IN  /\ new.chunks_added = 0
                 /\ new.chunks_added_since = now
                 /\ new.bandwidth = (bytes * 1000) \div (elapsed * 1024)]_vars

BeforeFirstCommit(t) ==
    \/ tasks[t].pc = "open"
    \/ /\ tasks[t].pc = "chunk"
       /\ files[tasks[t].local_file] - tasks[t].last_chunks = tasks[t].local_file_size

\* C25: the resume offset is visible before streaming - from the write of
\* the offset until the first progress commit the record's transferred is
\* the resume offset, and a summary returned in that window shows the
\* record with that value.
C25_OffsetVisible ==
    \A t \in Tasks :
        (BeforeFirstCommit(t) /\ Present(tasks[t].id))
        => /\ file_transfers[tasks[t].id].transferred = tasks[t].local_file_size
           /\ (ret.kind = "summary"
                 /\ file_transfers[tasks[t].id].status.state = "InProgress")
              => \E ft \in ret.file_transfers :
                    /\ ft.transfer_id = tasks[t].id
                    /\ ft.transferred = tasks[t].local_file_size

\* a summary was returned while a worker that resumes at a non-zero offset
\* has not sent its request yet
C25_Witness ==
    /\ ret.kind = "summary"
    /\ \E t \in Tasks :
          /\ tasks[t].pc = "open"
          /\ tasks[t].local_file_size > 0
          /\ \E ft \in ret.file_transfers : ft.transfer_id = tasks[t].id

\* this step is a step of start_file_transfer in task t
WorkerActs(t) ==
    /\ tasks'[t] # tasks[t]
    /\ tasks[t].pc \in WorkerPcs \cup {"loop"}

\* the transfer that step works for ("" when the loop is exhausted or the
\* record is missing)
StepId(t) ==
    IF tasks[t].pc \in WorkerPcs THEN tasks[t].id
    ELSE IF tasks'[t].pc = "stat" THEN tasks'[t].id
    ELSE IF ProbeFails(t) THEN ReturnedId(t)
    ELSE ""

\* C27: worker frame - a step of the worker for transfer X removes and adds
\* no record, leaves transfer_id, remote_url, local_file (and bandwidth) of
\* every record as they were, keeps every key equal to its record's
\* transfer_id, and changes no field of any record other than X.
C27_WorkerFrame ==
    [][\A t \in Tasks :
          WorkerActs(t)
          => /\ DOMAIN file_transfers' = DOMAIN file_transfers
             /\ \A k \in DOMAIN file_transfers :
                   /\ file_transfers'[k].transfer_id = k
                   /\ file_transfers'[k].transfer_id = file_transfers[k].transfer_id
                   /\ file_transfers'[k].remote_url = file_transfers[k].remote_url
                   /\ file_transfers'[k].local_file = file_transfers[k].local_file
                   /\ file_transfers'[k].bandwidth = file_transfers[k].bandwidth
                   /\ k # StepId(t) => file_transfers'[k] = file_transfers[k]]_vars

\* a worker has completed one record while a second record, still waiting
\* in the snapshot, is as add_file_transfer left it
C27_Witness ==
    \E t \in Tasks : \E x \in tasks[t].pending : \E k \in DOMAIN file_transfers :
        /\ tasks[t].pc = "loop"
        /\ k # x[1]
        /\ file_transfers[k].status.state = "Completed"
        /\ Present(x[1])
        /\ file_transfers[x[1]] = AddedTransfer(x[1], x[2], file_transfers[x[1]].local_file)

\* C28: partial file retention - no step shortens or deletes a destination
\* file, also when a worker panics mid-stream; and a worker that has read
\* the file's length resumes at the length the earlier run left.
C28_FileRetained ==
    [][\A p \in Paths :
          /\ files'[p] >= files[p]
          /\ \A t \in Tasks :
                (tasks[t].pc = "stat" /\ tasks'[t].pc = "set_transferred"
                   /\ tasks[t].local_file = p /\ files[p] # Absent)
                => tasks'[t].local_file_size = files[p]]_vars

\* an earlier call died mid-stream and the next worker has read, as its
\* resume offset, a file longer than any file present at the start
C28_Witness ==
    \E t \in Tasks, o \in Tasks :
        /\ tasks[o].pc = "panicked"
        /\ tasks[o].cause \in {"chunk", "write"}
        /\ tasks[t].pc = "set_transferred"
        /\ tasks[t].local_file_size = files[tasks[t].local_file]
        /\ tasks[t].local_file_size > MaxInitFile

C30_LockLiveness ==
    /\ \A t \in Tasks : (tasks[t].pc \in DOMAIN Acquires) ~> (lock = t)
    /\ (lock # Free) ~> (lock = Free)

\* a worker has aborted on a missing record inside a critical section and
\* the other task holds the lock after it
C30_Witness ==
    \E t \in Tasks, o \in Tasks :
        /\ tasks[t].pc = "panicked"
        /\ tasks[t].cause = "missing_record"
        /\ lock = o
        /\ o # t

====
